---- MODULE Spec2Model ----
(***************************************************************************)
(* Ride-sharing discrete-event simulation: the priority queue of events    *)
(* (container.py), the dispatcher (dispatcher.py), the driver and rider    *)
(* entities (driver.py, rider.py, location.py) and the five events with    *)
(* their do() methods (event.py).                                          *)
(***************************************************************************)
EXTENDS Integers, Sequences, FiniteSets, TLC

(* ------------------------------ bounds --------------------------------- *)
\* largest timestamp of an event of the initial event list
MaxTime == 1
\* largest rider patience
MaxPatience == 2
\* number of add() calls on the priority queue alone (SpecPQ)
MaxAdds == 5
\* number of calls on the dispatcher and its drivers alone (SpecDisp)
MaxCalls == 5

\* largest rider patience of the single ride (SpecRide)
MaxRidePatience == 10

\* largest coordinate of a location of the travel-time calls (SpecTime)
MaxCoord == 2
\* largest driver speed of the travel-time calls (SpecTime)
MaxSpeed == 4
\* number of travel-time calls on one driver (SpecTime)
MaxTimeCalls == 2

Riders == {"r1", "r2"}
Drivers == {"d1", "d2"}
RiderOrder == <<"r1", "r2">>
DriverOrder == <<"d1", "d2">>
Locs == {<<0, 0>>, <<1, 2>>}
Speeds == {1, 2}
Times == 0..MaxTime
Patiences == 0..MaxPatience

\* Python's None
None == "none"

(* rider.py: the status constants *)
WAITING == "waiting"
CANCELLED == "cancelled"
SATISFIED == "satisfied"

(* monitor categories and actions, as imported by event.py *)
RIDER == "rider"
DRIVER == "driver"
REQUEST == "request"
CANCEL == "cancel"
PICKUP == "pickup"
DROPOFF == "dropoff"

VARIABLES
    queue,          \* PriorityQueue._items: entries [ev, seq], seq = object identity / insertion number
    nextSeq,        \* number of items added to the priority queue so far
    driver_list,    \* Dispatcher.driver_list
    rq,             \* Dispatcher.rq._riders
    status,         \* Rider.status
    origin,         \* Rider.origin
    r_destination,  \* Rider.destination
    patience,       \* Rider.patience
    location,       \* Driver.location
    speed,          \* Driver.speed
    d_destination,  \* Driver.destination
    is_idle,        \* Driver.is_idle
    pc,             \* "run" while the loop runs, "aborted" after an exception left do()
    last,           \* the event executed (or the queue entry removed) by the latest step
    ret,            \* the list of events the latest do() returned
    returned,       \* what the latest direct call of a Dispatcher method returned
    notified,       \* the monitor.notify calls so far
    enqueued,       \* history: riders in the order they were added to rq
    dequeued        \* history: riders in the order they were removed from rq

vars == <<queue, nextSeq, driver_list, rq, status, origin, r_destination, patience,
          location, speed, d_destination, is_idle, pc, last, ret, returned,
          notified, enqueued, dequeued>>

\* what no event of the simulation assigns: the rider's attributes, and returned
riderFrame == <<origin, r_destination, patience, returned>>

(* ------------------------------ location.py ---------------------------- *)
Abs(x) == IF x < 0 THEN -x ELSE x

manhattan_distance(a, b) == Abs(a[1] - b[1]) + Abs(a[2] - b[2])

\* mutant of py_round: exact halves go up
py_round_half_up(d, s) == (2 * d + s) \div (2 * s)

(* Python 3 round() of the true quotient d / s: nearest integer, exact
   halves to the even neighbour *)
py_round(d, s) ==
    LET q == d \div s
        r == d % s
    IN  IF 2 * r < s THEN q
        ELSE IF 2 * r > s THEN q + 1
        ELSE IF q % 2 = 0 THEN q ELSE q + 1

(* ------------------------------ event.py: events ----------------------- *)
Event(k, t, r, d) == [kind |-> k, timestamp |-> t, rider |-> r, driver |-> d]
RiderRequest(t, r) == Event("RiderRequest", t, r, None)
DriverRequest(t, d) == Event("DriverRequest", t, None, d)
Cancellation(t, r) == Event("Cancellation", t, r, None)
Pickup(t, r, d) == Event("Pickup", t, r, d)
Dropoff(t, d, r) == Event("Dropoff", t, r, d)


\* an entry that is no event: the value of last before any step
NoEntry == [ev |-> Event("None", 0, None, None), seq |-> -1]

\* Driver.destination = None
NoLoc == <<>>

(* ------------------------------ container.py --------------------------- *)
\* mutant of Event_lt: compares with <= (an equal item overtakes its elders)
Event_le(a, b) == a.ev.timestamp <= b.ev.timestamp

\* Event.__lt__ on two queue entries
Event_lt(a, b) == a.ev.timestamp < b.ev.timestamp

\* mutant of InsertSorted: an unstable sort, an item goes ahead of its equals
RECURSIVE InsertSorted_front(_, _)
InsertSorted_front(s, x) ==
    IF s = <<>> THEN <<x>>
    ELSE IF ~Event_lt(Head(s), x) THEN <<x>> \o s
    ELSE <<Head(s)>> \o InsertSorted_front(Tail(s), x)

(* list.sort(): a stable sort by __lt__; an item goes behind every item
   that is not greater than it *)
RECURSIVE InsertSorted(_, _)
InsertSorted(s, x) ==
    IF s = <<>> THEN <<x>>
    ELSE IF Event_lt(x, Head(s)) THEN <<x>> \o s
    ELSE <<Head(s)>> \o InsertSorted(Tail(s), x)

RECURSIVE list_sort(_)
list_sort(s) ==
    IF s = <<>> THEN <<>>
    ELSE InsertSorted(list_sort(SubSeq(s, 1, Len(s) - 1)), s[Len(s)])

\* mutant of PriorityQueue_add: appends and never sorts
PriorityQueue_add_nosort(items, item) == Append(items, item)

\* PriorityQueue.add (every item added is an entry, never None)
PriorityQueue_add(items, item) == list_sort(Append(items, item))

\* PriorityQueue.remove: _items.pop(0)
PriorityQueue_remove(items) == [item |-> Head(items), rest |-> Tail(items)]

\* PriorityQueue.is_empty
PriorityQueue_is_empty(items) == Len(items) = 0

\* mutant of list_pop: on an empty list it returns a placeholder and goes on
list_pop_placeholder(items, none) ==
    IF items = <<>>
    THEN [raised |-> FALSE, item |-> none, rest |-> items]
    ELSE [raised |-> FALSE, item |-> Head(items), rest |-> Tail(items)]

(* list.pop(0), the body of both remove() methods: on an empty list it
   raises IndexError, returns nothing (none stands for the absent value)
   and leaves the list as it is *)
list_pop(items, none) ==
    IF items = <<>>
    THEN [raised |-> TRUE, item |-> none, rest |-> items]
    ELSE [raised |-> FALSE, item |-> Head(items), rest |-> Tail(items)]

\* mutant of RiderQueue_remove: returns the front rider and leaves it in the list
RiderQueue_remove_peek(riders) == [item |-> Head(riders), rest |-> riders]

\* mutant of RiderQueue_remove: pops the back of the list
RiderQueue_remove_back(riders) ==
    [item |-> riders[Len(riders)], rest |-> SubSeq(riders, 1, Len(riders) - 1)]

\* RiderQueue.add
RiderQueue_add(riders, rider) == Append(riders, rider)

\* RiderQueue.remove: _riders.pop(0)
RiderQueue_remove(riders) == [item |-> Head(riders), rest |-> Tail(riders)]

\* RiderQueue.is_empty
RiderQueue_is_empty(riders) == riders = <<>>

(* ------------------------------ driver.py ------------------------------ *)
\* Driver.__eq__: identifier (the handle itself), location and speed
Driver_eq(a, b) == <<a, location[a], speed[a]>> = <<b, location[b], speed[b]>>

\* mutant of get_travel_time: rounds the quotient, as start_drive
get_travel_time_round(loc, spd, dest) == py_round(manhattan_distance(loc, dest), spd)

\* Driver.get_travel_time, for a driver at loc with speed spd
get_travel_time(loc, spd, dest) == manhattan_distance(loc, dest) \div spd

\* mutant of start_drive: floor division, as get_travel_time
start_drive_floor(loc, spd, dest) == manhattan_distance(loc, dest) \div spd

\* Driver.start_drive: the time it returns (the caller applies its assignments)
start_drive(loc, spd, dest) == py_round(manhattan_distance(loc, dest), spd)

\* mutant of start_ride: rounds the quotient, as start_drive
start_ride_round(loc, spd, rider) ==
    py_round(manhattan_distance(loc, r_destination[rider]), spd)

(* Driver.start_ride: the time it returns, get_travel_time from the driver's
   location to its new destination, the rider's destination *)
start_ride(loc, spd, rider) == get_travel_time(loc, spd, r_destination[rider])

(* ------------------------------ dispatcher.py -------------------------- *)
\* eta and fastest_driver before the first loop of request_driver: unbound locals
Unbound == [bound |-> FALSE, eta |-> 0, fastest_driver |-> None]

\* mutant of first_loop: takes a driver whether it is idle or not
RECURSIVE first_loop_any(_, _, _)
first_loop_any(i, acc, rider) ==
    IF i > Len(driver_list) THEN acc
    ELSE LET driver == driver_list[i]
         IN  first_loop_any(i + 1,
                            [bound |-> TRUE,
                             eta |-> get_travel_time(location[driver], speed[driver],
                                                     origin[rider]),
                             fastest_driver |-> driver],
                            rider)

(* request_driver, lines 70-73: every idle driver overwrites eta and
   fastest_driver, so the loop leaves the last idle driver of the registry *)
RECURSIVE first_loop(_, _, _)
first_loop(i, acc, rider) ==
    IF i > Len(driver_list) THEN acc
    ELSE LET driver == driver_list[i]
         IN  first_loop(i + 1,
                        IF is_idle[driver]
                        THEN [bound |-> TRUE,
                              eta |-> get_travel_time(location[driver], speed[driver],
                                                      origin[rider]),
                              fastest_driver |-> driver]
                        ELSE acc,
                        rider)

\* mutant of second_loop: keeps the slower driver (> for <)
RECURSIVE second_loop_gt(_, _, _)
second_loop_gt(i, acc, rider) ==
    IF i > Len(driver_list) THEN acc
    ELSE LET driver == driver_list[i]
             new_eta == get_travel_time(location[driver], speed[driver], origin[rider])
         IN  second_loop_gt(i + 1,
                            IF is_idle[driver] /\ new_eta > acc.eta
                            THEN [bound |-> TRUE, eta |-> new_eta, fastest_driver |-> driver]
                            ELSE acc,
                            rider)

(* request_driver, lines 76-81: an idle driver replaces fastest_driver only
   when its eta is strictly smaller. An idle driver exists only when the
   first loop has bound eta, so line 79 never reads it unbound *)
RECURSIVE second_loop(_, _, _)
second_loop(i, acc, rider) ==
    IF i > Len(driver_list) THEN acc
    ELSE LET driver == driver_list[i]
             new_eta == get_travel_time(location[driver], speed[driver], origin[rider])
         IN  second_loop(i + 1,
                         IF is_idle[driver] /\ new_eta < acc.eta
                         THEN [bound |-> TRUE, eta |-> new_eta, fastest_driver |-> driver]
                         ELSE acc,
                         rider)

(* Dispatcher.request_driver: what the call does.
   "driver": returns fastest_driver, marked non-idle (line 82-83);
   "raise":  the registry is non-empty and nobody is idle, so line 82 reads the
             unbound local fastest_driver: UnboundLocalError;
   "none":   the registry is empty, the rider joins rq and None is returned *)
request_driver(rider) ==
    IF driver_list # <<>>
    THEN LET acc == second_loop(1, first_loop(1, Unbound, rider), rider)
         IN  IF acc.bound
             THEN [outcome |-> "driver", driver |-> acc.fastest_driver]
             ELSE [outcome |-> "raise", driver |-> None]
    ELSE [outcome |-> "none", driver |-> None]

\* mutant of cancel_ride: spares a rider that is SATISFIED, as Cancellation.do
cancel_ride_unless_satisfied(s) == IF s # SATISFIED THEN CANCELLED ELSE s

\* Dispatcher.cancel_ride, line 115: the rider's status afterwards
cancel_ride(s) == CANCELLED

(* mutant of in_driver_list: the registry remembers a driver by the
   location it had when it asked, so a driver that has moved is unknown *)
in_driver_list_where_it_was(driver) ==
    \E n \in 1..Len(notified) :
        /\ notified[n].category = DRIVER
        /\ notified[n].action = REQUEST
        /\ notified[n].id = driver
        /\ notified[n].location = location[driver]

\* "driver not in self.driver_list" negated: identity, or Driver.__eq__
in_driver_list(driver) ==
    \E i \in 1..Len(driver_list) :
        driver_list[i] = driver \/ Driver_eq(driver_list[i], driver)

\* Dispatcher.request_rider: the rider it returns, or None
request_rider(driver) ==
    IF RiderQueue_is_empty(rq) THEN None ELSE RiderQueue_remove(rq).item

(* ------------------------------ the loop ------------------------------- *)
\* monitor.notify(timestamp, category, action, identifier, location)
Note(t, c, a, i, l) ==
    [timestamp |-> t, category |-> c, action |-> a, id |-> i, location |-> l]

\* the loop adds the events a do() returned, in list order
RECURSIVE add_events(_, _, _)
add_events(items, events, n) ==
    IF events = <<>> THEN items
    ELSE add_events(PriorityQueue_add(items, [ev |-> Head(events), seq |-> n]),
                    Tail(events), n + 1)

\* the loop's step around a do(): the event was popped, its result is added
Finish(popped, events) ==
    /\ queue' = add_events(popped.rest, events, nextSeq)
    /\ nextSeq' = nextSeq + Len(events)
    /\ last' = popped.item
    /\ ret' = events

(* ------------------------------ event.py: do() ------------------------- *)
\* mutant of RiderRequest_events: the assigned driver's Pickup is not scheduled
RiderRequest_events_no_pickup(t, rider, driver) ==
    <<Cancellation(t + patience[rider], rider)>>

\* mutant of RiderRequest_events: the Cancellation is returned ahead of the Pickup
RiderRequest_events_cancel_first(t, rider, driver) ==
    <<Cancellation(t + patience[rider], rider)>>
    \o (IF driver # None
        THEN <<Pickup(t + start_drive(location[driver], speed[driver], origin[rider]),
                      rider, driver)>>
        ELSE <<>>)

\* mutant of RiderRequest_events: the Cancellation forgets the patience
RiderRequest_events_now(t, rider, driver) ==
    (IF driver # None
     THEN <<Pickup(t + start_drive(location[driver], speed[driver], origin[rider]),
                   rider, driver)>>
     ELSE <<>>)
    \o <<Cancellation(t, rider)>>

\* RiderRequest.do, lines 255-263: the list it returns; driver is request_driver's result
RiderRequest_events(t, rider, driver) ==
    (IF driver # None
     THEN <<Pickup(t + start_drive(location[driver], speed[driver], origin[rider]),
                   rider, driver)>>
     ELSE <<>>)
    \o <<Cancellation(t + patience[rider], rider)>>

\* mutant of DriverRequest_events: the Pickup is timed to the rider's destination
DriverRequest_events_dest(t, driver, rider) ==
    IF rider # None
    THEN <<Pickup(t + start_drive(location[driver], speed[driver], r_destination[rider]),
                  rider, driver)>>
    ELSE <<>>

\* DriverRequest.do, lines 312-318: the list it returns; rider is request_rider's result
DriverRequest_events(t, driver, rider) ==
    IF rider # None
    THEN <<Pickup(t + start_drive(location[driver], speed[driver], origin[rider]),
                  rider, driver)>>
    ELSE <<>>

\* mutant of Cancellation_status: never cancels
Cancellation_status_never(s) == s

\* mutant of Cancellation_status: cancels whatever the status is
Cancellation_status_always(s) == CANCELLED

\* Cancellation.do, lines 386-390: the rider's status afterwards
Cancellation_status(s) == IF s # SATISFIED THEN CANCELLED ELSE s

\* mutant of Pickup_events: a cancelled rider's driver is not sent back to matching
Pickup_events_stranded(t, rider, driver) ==
    IF status[rider] = WAITING
    THEN <<Dropoff(t + start_ride(origin[rider], speed[driver], rider), driver, rider)>>
    ELSE <<>>

(* Pickup.do, lines 465-478: the list it returns. end_drive has moved the
   driver to the rider's origin before start_ride measures the ride *)
Pickup_events(t, rider, driver) ==
    IF status[rider] = WAITING
    THEN <<Dropoff(t + start_ride(origin[rider], speed[driver], rider), driver, rider)>>
    ELSE IF status[rider] = CANCELLED
    THEN <<DriverRequest(t, driver)>>
    ELSE <<>>

\* mutant of Dropoff_events: the driver is not sent back to matching
Dropoff_events_none(t, driver) == <<>>

\* Dropoff.do, line 555: the list it returns
Dropoff_events(t, driver) == <<DriverRequest(t, driver)>>

\* mutant of Cancellation_notes: notifies whatever the status is
Cancellation_notes_always(t, rider) == <<Note(t, RIDER, CANCEL, rider, origin[rider])>>

\* Cancellation.do, lines 386-389: the notifications it sends
Cancellation_notes(t, rider) ==
    IF status[rider] # SATISFIED
    THEN <<Note(t, RIDER, CANCEL, rider, origin[rider])>>
    ELSE <<>>

\* mutant of Cancellation_events: a rider that was waiting is cancelled once more
Cancellation_events_again(t, rider) ==
    IF status[rider] = WAITING THEN <<Cancellation(t, rider)>> ELSE <<>>

\* Cancellation.do, line 391: the list it returns
Cancellation_events(t, rider) == <<>>

\* the loop can take a step: it runs and the queue is not empty
Running == pc = "run" /\ ~PriorityQueue_is_empty(queue)

DoRiderRequest ==
    /\ Running
    /\ LET popped == PriorityQueue_remove(queue)
           e == popped.item.ev
           t == e.timestamp
           res == request_driver(e.rider)
       IN  /\ e.kind = "RiderRequest"
           /\ notified' = Append(notified, Note(t, RIDER, REQUEST, e.rider, origin[e.rider]))
           /\ IF res.outcome = "raise"
              THEN \* the exception leaves do() and the loop: nothing is returned or added
                   /\ pc' = "aborted"
                   /\ queue' = popped.rest
                   /\ last' = popped.item
                   /\ ret' = <<>>
                   /\ UNCHANGED <<nextSeq, rq, enqueued, is_idle, d_destination>>
              ELSE /\ pc' = pc
                   /\ Finish(popped, RiderRequest_events(t, e.rider, res.driver))
                   /\ IF res.outcome = "none"
                      THEN /\ rq' = RiderQueue_add(rq, e.rider)
                           /\ enqueued' = Append(enqueued, e.rider)
                           /\ UNCHANGED <<is_idle, d_destination>>
                      ELSE \* request_driver line 82, then Driver.start_drive
                           /\ is_idle' = [is_idle EXCEPT ![res.driver] = FALSE]
                           /\ d_destination' =
                                  [d_destination EXCEPT ![res.driver] = origin[e.rider]]
                           /\ UNCHANGED <<rq, enqueued>>
    /\ UNCHANGED <<driver_list, status, riderFrame, location, speed, dequeued>>

DoDriverRequest ==
    /\ Running
    /\ LET popped == PriorityQueue_remove(queue)
           e == popped.item.ev
           t == e.timestamp
           d == e.driver
           rider == request_rider(d)
       IN  /\ e.kind = "DriverRequest"
           /\ notified' = Append(notified, Note(t, DRIVER, REQUEST, d, location[d]))
           /\ driver_list' = IF in_driver_list(d) THEN driver_list
                             ELSE Append(driver_list, d)
           /\ IF rider # None
              THEN /\ rq' = RiderQueue_remove(rq).rest
                   /\ dequeued' = Append(dequeued, rider)
                   /\ is_idle' = [is_idle EXCEPT ![d] = FALSE]
                   /\ d_destination' = [d_destination EXCEPT ![d] = origin[rider]]
              ELSE /\ is_idle' = IF in_driver_list(d) THEN is_idle
                                 ELSE [is_idle EXCEPT ![d] = TRUE]
                   /\ UNCHANGED <<rq, dequeued, d_destination>>
           /\ Finish(popped, DriverRequest_events(t, d, rider))
    /\ UNCHANGED <<status, riderFrame, location, speed, pc, enqueued>>

DoCancellation ==
    /\ Running
    /\ LET popped == PriorityQueue_remove(queue)
           e == popped.item.ev
           r == e.rider
       IN  /\ e.kind = "Cancellation"
           /\ notified' = notified \o Cancellation_notes(e.timestamp, r)
           /\ status' = [status EXCEPT ![r] = Cancellation_status(status[r])]
           /\ Finish(popped, Cancellation_events(e.timestamp, r))
    /\ UNCHANGED <<driver_list, rq, riderFrame, location, speed, d_destination, is_idle,
                   pc, enqueued, dequeued>>

DoPickup ==
    /\ Running
    /\ LET popped == PriorityQueue_remove(queue)
           e == popped.item.ev
           t == e.timestamp
           r == e.rider
           d == e.driver
       IN  /\ e.kind = "Pickup"
           \* Driver.end_drive
           /\ location' = [location EXCEPT ![d] = origin[r]]
           /\ IF status[r] = WAITING
              THEN /\ status' = [status EXCEPT ![r] = SATISFIED]
                   /\ d_destination' = [d_destination EXCEPT ![d] = r_destination[r]]
                   /\ is_idle' = [is_idle EXCEPT ![d] = FALSE]
                   /\ notified' = notified \o
                          <<Note(t, DRIVER, PICKUP, d, origin[r]),
                            Note(t, RIDER, PICKUP, r, origin[r])>>
              ELSE /\ status' = status
                   /\ d_destination' = [d_destination EXCEPT ![d] = NoLoc]
                   /\ notified' = Append(notified, Note(t, DRIVER, PICKUP, d, origin[r]))
                   /\ is_idle' = [is_idle EXCEPT ![d] = (status[r] = CANCELLED)]
           /\ Finish(popped, Pickup_events(t, r, d))
    /\ UNCHANGED <<driver_list, rq, riderFrame, speed, pc, enqueued, dequeued>>

DoDropoff ==
    /\ Running
    /\ LET popped == PriorityQueue_remove(queue)
           e == popped.item.ev
           r == e.rider
           d == e.driver
       IN  /\ e.kind = "Dropoff"
           /\ status' = [status EXCEPT ![r] = SATISFIED]
           \* Driver.end_ride
           /\ location' = [location EXCEPT ![d] = r_destination[r]]
           /\ d_destination' = [d_destination EXCEPT ![d] = NoLoc]
           /\ is_idle' = [is_idle EXCEPT ![d] = TRUE]
           /\ notified' = Append(notified,
                                 Note(e.timestamp, DRIVER, DROPOFF, d, r_destination[r]))
           /\ Finish(popped, Dropoff_events(e.timestamp, d))
    /\ UNCHANGED <<driver_list, rq, riderFrame, speed, pc, enqueued, dequeued>>

(* ------------------------------ initial states ------------------------- *)
\* the entities as their constructors leave them; the attributes are the inputs
EntitiesInit(nr, nd) ==
    /\ origin \in [Riders -> Locs]
    /\ r_destination \in [Riders -> Locs]
    /\ patience \in [Riders -> Patiences]
    /\ location \in [Drivers -> Locs]
    /\ speed \in [Drivers -> Speeds]
    \* an entity no event refers to is left at fixed values
    /\ \A i \in (nr + 1)..Len(RiderOrder) :
           /\ origin[RiderOrder[i]] = <<0, 0>>
           /\ r_destination[RiderOrder[i]] = <<0, 0>>
           /\ patience[RiderOrder[i]] = 0
    /\ \A i \in (nd + 1)..Len(DriverOrder) :
           /\ location[DriverOrder[i]] = <<0, 0>>
           /\ speed[DriverOrder[i]] = 1
    /\ status = [r \in Riders |-> WAITING]
    /\ d_destination = [d \in Drivers |-> NoLoc]
    /\ is_idle = [d \in Drivers |-> TRUE]
    /\ driver_list = <<>>
    /\ rq = <<>>
    /\ last = NoEntry
    /\ ret = <<>>
    /\ returned = None
    /\ notified = <<>>
    /\ enqueued = <<>>
    /\ dequeued = <<>>

(* The simulation: the initial event list (RiderRequest and DriverRequest
   events over distinct riders and drivers, in either order, with any
   timestamps) has been added to the priority queue *)
Init ==
    \E nr \in 0..Len(RiderOrder), nd \in 0..Len(DriverOrder), ridersFirst \in BOOLEAN,
       rt \in [Riders -> Times], dt \in [Drivers -> Times] :
        LET rs == [i \in 1..nr |-> RiderRequest(rt[RiderOrder[i]], RiderOrder[i])]
            ds == [i \in 1..nd |-> DriverRequest(dt[DriverOrder[i]], DriverOrder[i])]
            initial == IF ridersFirst THEN rs \o ds ELSE ds \o rs
        IN  /\ nr + nd > 0
            /\ EntitiesInit(nr, nd)
            /\ queue = add_events(<<>>, initial, 0)
            /\ nextSeq = Len(initial)
            /\ pc = "run"

Next ==
    \/ DoRiderRequest
    \/ DoDriverRequest
    \/ DoCancellation
    \/ DoPickup
    \/ DoDropoff

Spec == Init /\ [][Next]_vars

(* ------------------- one rider and one driver -------------------------- *)
(* The simulation of an initial list of one RiderRequest and one
   DriverRequest, in either order, over more locations, speeds and patiences *)
RideLocs == {<<0, 0>>, <<1, 2>>, <<5, 5>>}
RideSpeeds == {1, 2, 5}

InitRide ==
    \E ridersFirst \in BOOLEAN, rt \in Times, dt \in Times :
        LET rs == <<RiderRequest(rt, "r1")>>
            ds == <<DriverRequest(dt, "d1")>>
            initial == IF ridersFirst THEN rs \o ds ELSE ds \o rs
        IN  /\ origin \in [Riders -> RideLocs]
            /\ r_destination \in [Riders -> RideLocs]
            /\ patience \in [Riders -> 0..MaxRidePatience]
            /\ location \in [Drivers -> RideLocs]
            /\ speed \in [Drivers -> RideSpeeds]
            \* the entities no event refers to are left at fixed values
            /\ origin["r2"] = <<0, 0>>
            /\ r_destination["r2"] = <<0, 0>>
            /\ patience["r2"] = 0
            /\ location["d2"] = <<0, 0>>
            /\ speed["d2"] = 1
            /\ status = [r \in Riders |-> WAITING]
            /\ d_destination = [d \in Drivers |-> NoLoc]
            /\ is_idle = [d \in Drivers |-> TRUE]
            /\ driver_list = <<>>
            /\ rq = <<>>
            /\ last = NoEntry
            /\ ret = <<>>
            /\ returned = None
            /\ notified = <<>>
            /\ enqueued = <<>>
            /\ dequeued = <<>>
            /\ queue = add_events(<<>>, initial, 0)
            /\ nextSeq = Len(initial)
            /\ pc = "run"

SpecRide == InitRide /\ [][Next]_vars

(* ------------------- the priority queue on its own --------------------- *)
(* Any interleaving of PriorityQueue.add and PriorityQueue.remove (remove
   only on a non-empty queue) over events with timestamps in Times *)
InitPQ ==
    /\ EntitiesInit(0, 0)
    /\ queue = <<>>
    /\ nextSeq = 0
    /\ pc = "pq"

PQAdd ==
    /\ pc = "pq"
    /\ nextSeq < MaxAdds
    /\ \E t \in Times :
           queue' = PriorityQueue_add(queue, [ev |-> Event("Event", t, None, None),
                                              seq |-> nextSeq])
    /\ nextSeq' = nextSeq + 1
    /\ UNCHANGED <<driver_list, rq, status, riderFrame, location, speed, d_destination,
                   is_idle, pc, last, ret, notified, enqueued, dequeued>>

PQRemove ==
    /\ pc = "pq"
    /\ ~PriorityQueue_is_empty(queue)
    /\ queue' = PriorityQueue_remove(queue).rest
    /\ last' = PriorityQueue_remove(queue).item
    /\ UNCHANGED <<nextSeq, driver_list, rq, status, riderFrame, location, speed,
                   d_destination, is_idle, pc, ret, notified, enqueued, dequeued>>

NextPQ ==
    \/ PQAdd
    \/ PQRemove

SpecPQ == InitPQ /\ [][NextPQ]_vars

\* the call just made on an object on its own, as the value of last
Call(name, rider, driver) == [ev |-> Event(name, 0, rider, driver), seq |-> nextSeq]

(* ------------------- both containers, remove() unguarded --------------- *)
(* Any sequence of add and remove calls on a PriorityQueue and a RiderQueue,
   remove on an empty container included; an exception ends the run *)
InitCont ==
    /\ EntitiesInit(0, 0)
    /\ queue = <<>>
    /\ nextSeq = 0
    /\ pc = "cont"

PriorityQueueAdd ==
    /\ pc = "cont"
    /\ nextSeq < MaxAdds
    /\ \E t \in Times :
           queue' = PriorityQueue_add(queue, [ev |-> Event("Event", t, None, None),
                                              seq |-> nextSeq])
    /\ last' = Call("PriorityQueue.add", None, None)
    /\ nextSeq' = nextSeq + 1
    /\ UNCHANGED <<driver_list, rq, status, riderFrame, location, speed, d_destination,
                   is_idle, pc, ret, notified, enqueued, dequeued>>

\* x = pq.remove(): ret holds the item returned; a raise assigns nothing
PriorityQueueRemove ==
    /\ pc = "cont"
    /\ LET res == list_pop(queue, NoEntry)
       IN  /\ queue' = res.rest
           /\ ret' = IF res.raised THEN ret ELSE <<res.item>>
           /\ pc' = IF res.raised THEN "aborted" ELSE pc
    /\ last' = Call("PriorityQueue.remove", None, None)
    /\ UNCHANGED <<nextSeq, driver_list, rq, status, riderFrame, location, speed,
                   d_destination, is_idle, notified, enqueued, dequeued>>

RiderQueueAdd ==
    /\ pc = "cont"
    /\ nextSeq < MaxAdds
    /\ \E rider \in Riders :
           /\ rq' = RiderQueue_add(rq, rider)
           /\ last' = Call("RiderQueue.add", rider, None)
    /\ nextSeq' = nextSeq + 1
    /\ UNCHANGED <<queue, driver_list, status, riderFrame, location, speed, d_destination,
                   is_idle, pc, ret, notified, enqueued, dequeued>>

\* x = rq.remove(): returned holds the rider returned; a raise assigns nothing
RiderQueueRemove ==
    /\ pc = "cont"
    /\ LET res == list_pop(rq, None)
       IN  /\ rq' = res.rest
           /\ returned' = IF res.raised THEN returned ELSE res.item
           /\ pc' = IF res.raised THEN "aborted" ELSE pc
    /\ last' = Call("RiderQueue.remove", None, None)
    /\ UNCHANGED <<queue, nextSeq, driver_list, status, origin, r_destination, patience,
                   location, speed, d_destination, is_idle, ret, notified, enqueued,
                   dequeued>>

NextCont ==
    \/ PriorityQueueAdd
    \/ PriorityQueueRemove
    \/ RiderQueueAdd
    \/ RiderQueueRemove

SpecCont == InitCont /\ [][NextCont]_vars

(* ------------------- the dispatcher on its own ------------------------- *)
(* Any sequence of Dispatcher.request_driver and Dispatcher.request_rider
   calls, with Driver.start_drive and Driver.end_drive calls between them *)

InitDisp ==
    /\ EntitiesInit(Len(RiderOrder), Len(DriverOrder))
    /\ r_destination = [r \in Riders |-> <<0, 0>>]
    /\ patience = [r \in Riders |-> 0]
    /\ queue = <<>>
    /\ nextSeq = 0
    /\ pc = "disp"

CallRequestDriver ==
    /\ pc = "disp"
    /\ nextSeq < MaxCalls
    /\ \E rider \in Riders :
        LET res == request_driver(rider)
        IN  /\ last' = Call("request_driver", rider, None)
            /\ returned' = res.driver
            /\ pc' = IF res.outcome = "raise" THEN "aborted" ELSE pc
            /\ IF res.outcome = "none"
               THEN /\ rq' = RiderQueue_add(rq, rider)
                    /\ enqueued' = Append(enqueued, rider)
               ELSE UNCHANGED <<rq, enqueued>>
            /\ is_idle' = IF res.outcome = "driver"
                          THEN [is_idle EXCEPT ![res.driver] = FALSE]
                          ELSE is_idle
    /\ nextSeq' = nextSeq + 1
    /\ UNCHANGED <<queue, driver_list, status, origin, r_destination, patience, location,
                   speed, d_destination, ret, notified, dequeued>>

CallRequestRider ==
    /\ pc = "disp"
    /\ nextSeq < MaxCalls
    /\ \E driver \in Drivers :
        LET rider == request_rider(driver)
        IN  /\ last' = Call("request_rider", None, driver)
            /\ returned' = rider
            /\ driver_list' = IF in_driver_list(driver) THEN driver_list
                              ELSE Append(driver_list, driver)
            /\ is_idle' = IF in_driver_list(driver) THEN is_idle
                          ELSE [is_idle EXCEPT ![driver] = TRUE]
            /\ IF rider # None
               THEN /\ rq' = RiderQueue_remove(rq).rest
                    /\ dequeued' = Append(dequeued, rider)
               ELSE UNCHANGED <<rq, dequeued>>
    /\ nextSeq' = nextSeq + 1
    /\ UNCHANGED <<queue, status, origin, r_destination, patience, location, speed,
                   d_destination, pc, ret, notified, enqueued>>

\* Driver.start_drive(rider.origin), called on its own
CallStartDrive ==
    /\ pc = "disp"
    /\ nextSeq < MaxCalls
    /\ \E driver \in Drivers, rider \in Riders :
        /\ last' = Call("start_drive", rider, driver)
        /\ is_idle' = [is_idle EXCEPT ![driver] = FALSE]
        /\ d_destination' = [d_destination EXCEPT ![driver] = origin[rider]]
    /\ nextSeq' = nextSeq + 1
    /\ UNCHANGED <<queue, driver_list, rq, status, riderFrame, location, speed, pc, ret,
                   notified, enqueued, dequeued>>

\* Driver.end_drive(rider), called on its own (precondition: a destination is set)
CallEndDrive ==
    /\ pc = "disp"
    /\ nextSeq < MaxCalls
    /\ \E driver \in Drivers, rider \in Riders :
        /\ d_destination[driver] # NoLoc
        /\ last' = Call("end_drive", rider, driver)
        /\ location' = [location EXCEPT ![driver] = origin[rider]]
        /\ d_destination' = [d_destination EXCEPT ![driver] = NoLoc]
        /\ is_idle' = [is_idle EXCEPT ![driver] = TRUE]
    /\ nextSeq' = nextSeq + 1
    /\ UNCHANGED <<queue, driver_list, rq, status, riderFrame, speed, pc, ret, notified,
                   enqueued, dequeued>>

NextDisp ==
    \/ CallRequestDriver
    \/ CallRequestRider
    \/ CallStartDrive
    \/ CallEndDrive

SpecDisp == InitDisp /\ [][NextDisp]_vars

(* ------------------- the travel times of one driver -------------------- *)
(* Driver.get_travel_time, Driver.start_drive and Driver.start_ride called
   on one driver for one rider, over every location of a small grid and
   every speed; ret holds the number the latest call returned *)
TimeLocs == (0..MaxCoord) \X (0..MaxCoord)

InitTime ==
    /\ origin \in [Riders -> TimeLocs]
    /\ r_destination \in [Riders -> TimeLocs]
    /\ location \in [Drivers -> TimeLocs]
    /\ speed \in [Drivers -> 1..MaxSpeed]
    \* the calls are made on d1 for r1
    /\ origin["r2"] = <<0, 0>>
    /\ r_destination["r2"] = <<0, 0>>
    /\ location["d2"] = <<0, 0>>
    /\ speed["d2"] = 1
    /\ patience = [r \in Riders |-> 0]
    /\ status = [r \in Riders |-> WAITING]
    /\ d_destination = [d \in Drivers |-> NoLoc]
    /\ is_idle = [d \in Drivers |-> TRUE]
    /\ driver_list = <<>>
    /\ rq = <<>>
    /\ last = NoEntry
    /\ ret = <<>>
    /\ returned = None
    /\ notified = <<>>
    /\ enqueued = <<>>
    /\ dequeued = <<>>
    /\ queue = <<>>
    /\ nextSeq = 0
    /\ pc = "time"

\* driver.get_travel_time(rider.origin), as request_driver calls it
TimeGetTravelTime ==
    /\ pc = "time"
    /\ nextSeq < MaxTimeCalls
    /\ last' = Call("get_travel_time", "r1", "d1")
    /\ ret' = <<get_travel_time(location["d1"], speed["d1"], origin["r1"])>>
    /\ nextSeq' = nextSeq + 1
    /\ UNCHANGED <<queue, driver_list, rq, status, riderFrame, location, speed,
                   d_destination, is_idle, pc, notified, enqueued, dequeued>>

\* driver.start_drive(rider.origin)
TimeStartDrive ==
    /\ pc = "time"
    /\ nextSeq < MaxTimeCalls
    /\ last' = Call("start_drive", "r1", "d1")
    /\ is_idle' = [is_idle EXCEPT !["d1"] = FALSE]
    /\ d_destination' = [d_destination EXCEPT !["d1"] = origin["r1"]]
    /\ ret' = <<start_drive(location["d1"], speed["d1"], origin["r1"])>>
    /\ nextSeq' = nextSeq + 1
    /\ UNCHANGED <<queue, driver_list, rq, status, riderFrame, location, speed, pc,
                   notified, enqueued, dequeued>>

\* driver.start_ride(rider)
TimeStartRide ==
    /\ pc = "time"
    /\ nextSeq < MaxTimeCalls
    /\ last' = Call("start_ride", "r1", "d1")
    /\ d_destination' = [d_destination EXCEPT !["d1"] = r_destination["r1"]]
    /\ status' = [status EXCEPT !["r1"] = SATISFIED]
    /\ ret' = <<start_ride(location["d1"], speed["d1"], "r1")>>
    /\ nextSeq' = nextSeq + 1
    /\ UNCHANGED <<queue, driver_list, rq, riderFrame, location, speed, is_idle, pc,
                   notified, enqueued, dequeued>>

NextTime ==
    \/ TimeGetTravelTime
    \/ TimeStartDrive
    \/ TimeStartRide

SpecTime == InitTime /\ [][NextTime]_vars

(* ------------------- the dispatcher with cancel_ride ------------------- *)
(* Any sequence of Dispatcher.request_driver, Dispatcher.request_rider and
   Dispatcher.cancel_ride calls, with Driver.start_ride calls between them *)

\* Dispatcher.cancel_ride(rider), called on its own
CallCancelRide ==
    /\ pc = "disp"
    /\ nextSeq < MaxCalls
    /\ \E rider \in Riders :
        /\ last' = Call("cancel_ride", rider, None)
        /\ status' = [status EXCEPT ![rider] = cancel_ride(status[rider])]
    /\ nextSeq' = nextSeq + 1
    /\ UNCHANGED <<queue, driver_list, rq, riderFrame, location, speed, d_destination,
                   is_idle, pc, ret, notified, enqueued, dequeued>>

\* Driver.start_ride(rider), called on its own
CallStartRide ==
    /\ pc = "disp"
    /\ nextSeq < MaxCalls
    /\ \E driver \in Drivers, rider \in Riders :
        /\ last' = Call("start_ride", rider, driver)
        /\ d_destination' = [d_destination EXCEPT ![driver] = r_destination[rider]]
        /\ status' = [status EXCEPT ![rider] = SATISFIED]
    /\ nextSeq' = nextSeq + 1
    /\ UNCHANGED <<queue, driver_list, rq, riderFrame, location, speed, is_idle, pc, ret,
                   notified, enqueued, dequeued>>

NextCancel ==
    \/ CallRequestDriver
    \/ CallRequestRider
    \/ CallStartRide
    \/ CallCancelRide

SpecCancel == InitDisp /\ [][NextCancel]_vars

(* ------------------------------ properties ----------------------------- *)
\* the drivers of the registry
Registered == {driver_list[i] : i \in 1..Len(driver_list)}

\* the ETA request_driver computes for a driver (dispatcher.py lines 72, 78)
eta_of(driver, rider) == get_travel_time(location[driver], speed[driver], origin[rider])

\* the event the loop executes next
HeadEv == Head(queue).ev

\* the next step executes a RiderRequest, i.e. calls request_driver
RiderRequestCall == Running /\ HeadEv.kind = "RiderRequest"

\* the next step executes a DriverRequest, i.e. calls request_rider
DriverRequestCall == Running /\ HeadEv.kind = "DriverRequest"

(* C1: in every run of the loop, no event is executed with a timestamp
   smaller than that of the event executed before it, so the executed
   timestamps never decrease. *)
C1_ExecutedTimestampsNonDecreasing ==
    [][last'.ev.timestamp >= last.ev.timestamp]_vars

(* C1 witness: a follow-up event was executed ahead of an event of the
   initial list that was added before it and is still waiting. *)
C1_Witness ==
    /\ pc = "run"
    /\ last.ev.kind \in {"Cancellation", "Pickup", "Dropoff"}
    /\ \E i \in 1..Len(queue) :
           /\ queue[i].seq < last.seq
           /\ queue[i].ev.timestamp > last.ev.timestamp

(* C2: under any interleaving of add and remove, remove returns a held item
   of minimal timestamp, and among the held items of that timestamp the one
   added earliest. *)
C2_RemoveMinimalThenOldest ==
    [][Len(queue') < Len(queue) =>
          /\ \E i \in 1..Len(queue) : queue[i] = last'
          /\ \A i \in 1..Len(queue) :
                 \/ last'.ev.timestamp < queue[i].ev.timestamp
                 \/ /\ last'.ev.timestamp = queue[i].ev.timestamp
                    /\ last'.seq <= queue[i].seq]_vars

(* C2 witness: a remove returned an item while a younger item of the same
   timestamp and an item of a larger timestamp that was added before it
   were held. *)
C2_Witness ==
    /\ pc = "pq"
    /\ last.seq >= 0
    /\ \E i \in 1..Len(queue) :
           queue[i].ev.timestamp = last.ev.timestamp /\ queue[i].seq > last.seq
    /\ \E i \in 1..Len(queue) :
           queue[i].ev.timestamp > last.ev.timestamp /\ queue[i].seq < last.seq

(* C3: a rider starts WAITING and its status changes at most once: once it
   is CANCELLED or SATISFIED no event changes it again. *)
C3_RiderStatusMonotonic ==
    [][\A r \in Riders :
          /\ status[r] \in {WAITING, CANCELLED, SATISFIED}
          /\ status[r] # WAITING => status'[r] = status[r]]_vars

(* C3 witness: a Cancellation was executed for a rider that a Pickup had
   made SATISFIED, after a Pickup had been executed for a rider that was
   CANCELLED (the driver arrived and no rider pickup followed). *)
C3_Witness ==
    /\ last.ev.kind = "Cancellation"
    /\ status[last.ev.rider] = SATISFIED
    /\ \E n \in 1..Len(notified), r \in Riders :
           /\ notified[n].category = DRIVER
           /\ notified[n].action = PICKUP
           /\ notified[n].location = origin[r]
           /\ status[r] = CANCELLED
           /\ n < Len(notified)
           /\ notified[n + 1].action # PICKUP

(* C4: when request_driver is called while a registered driver is idle, it
   returns a registered driver that was idle, whose ETA is at most that of
   every registered idle driver, and marks it non-idle. *)
C4_RequestDriverIdleMinimalEta ==
    [][(RiderRequestCall /\ \E d \in Registered : is_idle[d]) =>
          LET rider == HeadEv.rider
              res == request_driver(rider)
          IN  /\ res.outcome = "driver"
              /\ res.driver \in Registered
              /\ is_idle[res.driver]
              /\ \A o \in Registered :
                     is_idle[o] => eta_of(res.driver, rider) <= eta_of(o, rider)
              /\ ~is_idle'[res.driver]
              /\ ret'[1] = Pickup(ret'[1].timestamp, rider, res.driver)]_vars

(* C4 witness: a RiderRequest was given a driver while another registered
   driver, idle and with a larger ETA, was passed over. *)
C4_Witness ==
    /\ pc = "run"
    /\ last.ev.kind = "RiderRequest"
    /\ Len(ret) = 2
    /\ \E o \in Registered :
           /\ o # ret[1].driver
           /\ is_idle[o]
           /\ eta_of(o, last.ev.rider) > eta_of(ret[1].driver, last.ev.rider)

(* C5: when several idle registered drivers share the smallest ETA,
   request_driver returns the one of them that registered first. *)
C5_TieGoesToEarliestRegistered ==
    [][(RiderRequestCall /\ \E d \in Registered : is_idle[d]) =>
          LET rider == HeadEv.rider
              chosen == ret'[1].driver
          IN  \A i, j \in 1..Len(driver_list) :
                  (/\ driver_list[j] = chosen
                   /\ is_idle[driver_list[i]]
                   /\ eta_of(driver_list[i], rider) = eta_of(chosen, rider)) => j <= i]_vars


(* C6: when request_driver is called while the registry is non-empty and no
   registered driver is idle, the call completes normally: it returns none,
   appends the rider to the waiting list and changes no driver; the
   simulation goes on. *)
C6_NoIdleDriverFallsBackToWaitingList ==
    [][(RiderRequestCall /\ driver_list # <<>> /\ \A d \in Registered : ~is_idle[d]) =>
          LET rider == HeadEv.rider
          IN  /\ pc' = "run"
              /\ rq' = Append(rq, rider)
              /\ ret' = <<Cancellation(HeadEv.timestamp + patience[rider], rider)>>
              /\ UNCHANGED <<driver_list, is_idle, location, d_destination>>]_vars

(* C7: a RiderRequest executed while no driver has ever registered appends
   the rider to the back of the waiting list, leaves it WAITING and returns
   exactly one event, Cancellation(t + patience). *)
C7_RiderRequestWithoutDrivers ==
    [][(RiderRequestCall /\ driver_list = <<>>) =>
          LET rider == HeadEv.rider
          IN  /\ rq' = Append(rq, rider)
              /\ status[rider] = WAITING
              /\ status'[rider] = WAITING
              /\ ret' = <<Cancellation(HeadEv.timestamp + patience[rider], rider)>>
              /\ pc' = "run"]_vars

(* C7 witness: a RiderRequest of a rider with positive patience was executed
   with an empty registry and the rider joined the waiting list behind
   another rider. *)
C7_Witness ==
    /\ last.ev.kind = "RiderRequest"
    /\ driver_list = <<>>
    /\ Len(rq) = 2
    /\ rq[2] = last.ev.rider
    /\ patience[last.ev.rider] > 0
    /\ Len(ret) = 1

(* C8: a RiderRequest that is assigned a driver returns exactly
   <<Pickup(t + round(distance / speed)), Cancellation(t + patience)>>;
   afterwards the driver is non-idle with destination the rider's origin and
   its location unchanged, and the rider is WAITING and not on the waiting
   list. *)
C8_RiderRequestAssigned ==
    [][(RiderRequestCall /\ request_driver(HeadEv.rider).outcome = "driver") =>
          LET rider == HeadEv.rider
              t == HeadEv.timestamp
              driver == request_driver(rider).driver
              dist == manhattan_distance(location[driver], origin[rider])
          IN  /\ ret' = <<Pickup(t + py_round(dist, speed[driver]), rider, driver),
                          Cancellation(t + patience[rider], rider)>>
              /\ ~is_idle'[driver]
              /\ d_destination'[driver] = origin[rider]
              /\ location'[driver] = location[driver]
              /\ status'[rider] = WAITING
              /\ \A i \in 1..Len(rq') : rq'[i] # rider]_vars

(* C8 witness: a RiderRequest was assigned a driver whose approach time
   round(distance / speed) differs from floor(distance / speed). *)
C8_Witness ==
    /\ last.ev.kind = "RiderRequest"
    /\ Len(ret) = 2
    /\ ret[1].kind = "Pickup"
    /\ ret[1].timestamp - last.ev.timestamp # eta_of(ret[1].driver, last.ev.rider)
    /\ ~is_idle[ret[1].driver]


(* C9: request_rider registers an unseen driver and marks it idle, leaves a
   registered driver as it is, and returns the rider that has waited
   longest (none when nobody waits); over any sequence of request_driver and
   request_rider calls the riders leave the waiting list in the order in
   which they joined it. *)
C9_RequestRiderFifo ==
    [][last'.ev.kind = "request_rider" =>
          LET driver == last'.ev.driver
          IN  /\ IF driver \in Registered
                 THEN driver_list' = driver_list /\ is_idle' = is_idle
                 ELSE /\ driver_list' = Append(driver_list, driver)
                      /\ is_idle' = [is_idle EXCEPT ![driver] = TRUE]
              /\ IF rq = <<>>
                 THEN returned' = None /\ rq' = rq /\ dequeued' = dequeued
                 ELSE /\ returned' = enqueued[Len(dequeued) + 1]
                      /\ rq' = Tail(rq)
                      /\ dequeued' = Append(dequeued, returned')
              /\ dequeued' = SubSeq(enqueued', 1, Len(dequeued'))
              /\ enqueued' = dequeued' \o rq']_vars

(* C9 witness: two different riders had joined the waiting list and
   request_rider has handed out both, the latest call to a driver it had to
   register first. *)
C9_Witness ==
    /\ pc = "disp"
    /\ last.ev.kind = "request_rider"
    /\ Len(dequeued) = 2
    /\ dequeued[1] # dequeued[2]
    /\ returned = dequeued[2]
    /\ driver_list[Len(driver_list)] = last.ev.driver
    /\ Len(driver_list) = 2

(* C10: a DriverRequest executed with an empty waiting list returns no
   events and leaves the driver registered, its idle flag unchanged if it
   was registered and set if it is new; with a non-empty waiting list it
   returns exactly Pickup(t + round(distance / speed)) for the head rider,
   and the driver becomes non-idle with destination the rider's origin. *)
C10_DriverRequest ==
    [][DriverRequestCall =>
          LET driver == HeadEv.driver
              t == HeadEv.timestamp
          IN  /\ driver \in Registered'
              /\ IF rq = <<>>
                 THEN /\ ret' = <<>>
                      /\ is_idle'[driver] = IF driver \in Registered THEN is_idle[driver]
                                            ELSE TRUE
                 ELSE LET rider == Head(rq)
                          dist == manhattan_distance(location[driver], origin[rider])
                      IN  /\ ret' = <<Pickup(t + py_round(dist, speed[driver]),
                                             rider, driver)>>
                          /\ ~is_idle'[driver]
                          /\ d_destination'[driver] = origin[rider]]_vars

(* C10 witness: a DriverRequest took the head rider of a waiting list of two
   and scheduled a Pickup with a positive approach time for a rider whose
   origin and destination differ; the driver is now non-idle. *)
C10_Witness ==
    /\ last.ev.kind = "DriverRequest"
    /\ Len(ret) = 1
    /\ Len(rq) = 1
    /\ ret[1].rider = enqueued[1]
    /\ ret[1].timestamp - last.ev.timestamp > 0
    /\ origin[ret[1].rider] # r_destination[ret[1].rider]
    /\ ~is_idle[last.ev.driver]

\* the next step executes a Pickup
PickupCall == Running /\ HeadEv.kind = "Pickup"

\* the next step executes a Dropoff
DropoffCall == Running /\ HeadEv.kind = "Dropoff"

\* the next step executes a Cancellation
CancellationCall == Running /\ HeadEv.kind = "Cancellation"

(* C11: a Pickup(t, rider, driver) executed while the rider is WAITING makes
   the rider SATISFIED, puts the driver at the rider's origin with
   destination the rider's destination, leaves the driver non-idle and
   returns exactly <<Dropoff(t + floor(distance(origin, destination) / speed),
   driver, rider)>>. *)
C11_PickupOfWaitingRider ==
    [][(PickupCall /\ status[HeadEv.rider] = WAITING) =>
          LET rider == HeadEv.rider
              driver == HeadEv.driver
              dist == manhattan_distance(origin[rider], r_destination[rider])
          IN  /\ status'[rider] = SATISFIED
              /\ location'[driver] = origin[rider]
              /\ d_destination'[driver] = r_destination[rider]
              /\ ~is_idle'[driver]
              /\ ret' = <<Event("Dropoff", HeadEv.timestamp + (dist \div speed[driver]),
                                rider, driver)>>]_vars

(* C11 witness: a Pickup made a rider SATISFIED and scheduled the Dropoff of
   a ride whose floor(distance / speed) = 1 differs from the rounded
   quotient 2 (distance 3, speed 2); the driver stands at the rider's origin
   and is non-idle. *)
C11_Witness ==
    /\ last.ev.kind = "Pickup"
    /\ status[last.ev.rider] = SATISFIED
    /\ Len(ret) = 1
    /\ ret[1].kind = "Dropoff"
    /\ speed[last.ev.driver] = 2
    /\ manhattan_distance(origin[last.ev.rider], r_destination[last.ev.rider]) = 3
    /\ ret[1].timestamp = last.ev.timestamp + 1
    /\ location[last.ev.driver] = origin[last.ev.rider]
    /\ ~is_idle[last.ev.driver]

(* C12: a Pickup(t, rider, driver) executed while the rider is CANCELLED
   leaves the rider CANCELLED, puts the driver at the rider's origin with no
   destination, makes the driver idle and returns exactly
   <<DriverRequest(t, driver)>>: same timestamp, no Dropoff. *)
C12_PickupOfCancelledRider ==
    [][(PickupCall /\ status[HeadEv.rider] = CANCELLED) =>
          LET rider == HeadEv.rider
              driver == HeadEv.driver
          IN  /\ status'[rider] = CANCELLED
              /\ location'[driver] = origin[rider]
              /\ d_destination'[driver] = NoLoc
              /\ is_idle'[driver]
              /\ ret' = <<Event("DriverRequest", HeadEv.timestamp, None, driver)>>]_vars

(* C12 witness: a Pickup found its rider CANCELLED after the driver had
   driven to an origin away from where it registered; the driver is idle
   there and a DriverRequest with the Pickup's timestamp is queued. *)
C12_Witness ==
    /\ last.ev.kind = "Pickup"
    /\ status[last.ev.rider] = CANCELLED
    /\ ret = <<DriverRequest(last.ev.timestamp, last.ev.driver)>>
    /\ is_idle[last.ev.driver]
    /\ d_destination[last.ev.driver] = NoLoc
    /\ last.ev.timestamp > 0
    /\ \E n \in 1..Len(notified) :
           /\ notified[n].category = DRIVER
           /\ notified[n].action = REQUEST
           /\ notified[n].id = last.ev.driver
           /\ notified[n].location # location[last.ev.driver]
    /\ \E i \in 1..Len(queue) : queue[i].ev = ret[1]

\* the riders that have left the waiting list: a DriverRequest was given them
Waitlisted == {dequeued[i] : i \in 1..Len(dequeued)}

(* the timestamp of a rider's Cancellation: the time of its RiderRequest,
   which the request's notification records, plus its patience *)
CancelTime(rider) ==
    LET n == CHOOSE n \in 1..Len(notified) :
                 /\ notified[n].category = RIDER
                 /\ notified[n].action = REQUEST
                 /\ notified[n].id = rider
    IN  notified[n].timestamp + patience[rider]

\* no Dropoff for the rider is in the event queue
NoDropoffQueued(items, rider) ==
    \A i \in 1..Len(items) : ~(items[i].ev.kind = "Dropoff" /\ items[i].ev.rider = rider)

(* C13: when a Cancellation and a Pickup for the same rider are queued with
   the same timestamp and the Cancellation was added first (the rider was
   waitlisted and a later DriverRequest dispatched the driver), the
   Cancellation stands ahead of the Pickup, so it is executed first; the
   Pickup then finds the rider CANCELLED and returns DriverRequest(t, driver),
   and no Dropoff for a cancelled rider is ever queued. *)
C13_CancellationAheadOfPickup ==
    [][/\ \A i, j \in 1..Len(queue) :
              (/\ queue[i].ev.kind = "Cancellation"
               /\ queue[j].ev.kind = "Pickup"
               /\ queue[i].ev.rider = queue[j].ev.rider
               /\ queue[i].ev.timestamp = queue[j].ev.timestamp
               /\ queue[i].seq < queue[j].seq) => i < j
       /\ (/\ PickupCall
           /\ HeadEv.rider \in Waitlisted
           /\ HeadEv.timestamp = CancelTime(HeadEv.rider)) =>
              /\ status[HeadEv.rider] = CANCELLED
              /\ ret' = <<Event("DriverRequest", HeadEv.timestamp, None, HeadEv.driver)>>
       /\ \A r \in Riders :
              status[r] = CANCELLED => NoDropoffQueued(queue, r) /\ NoDropoffQueued(queue', r)
      ]_vars

(* C13 witness: a rider joined the waiting list, a DriverRequest dispatched
   a driver to it with a positive approach time, the rider's Cancellation
   was executed after that DriverRequest and at the timestamp of the Pickup,
   and the Pickup has now been executed and found the rider CANCELLED. *)
C13_Witness ==
    /\ last.ev.kind = "Pickup"
    /\ last.ev.rider \in Waitlisted
    /\ last.ev.timestamp = CancelTime(last.ev.rider)
    /\ status[last.ev.rider] = CANCELLED
    /\ Len(ret) = 1
    /\ ret[1].kind = "DriverRequest"
    /\ \E m, n \in 1..Len(notified) :
           /\ m < n
           /\ notified[m].category = DRIVER
           /\ notified[m].action = REQUEST
           /\ notified[m].id = last.ev.driver
           /\ notified[m].timestamp < last.ev.timestamp
           /\ notified[n] = Note(last.ev.timestamp, RIDER, CANCEL, last.ev.rider,
                                 origin[last.ev.rider])

(* C14: a Dropoff(t, driver, rider) sets the rider SATISFIED, puts the
   driver at the rider's destination with no destination of its own, makes
   the driver idle and returns exactly <<DriverRequest(t, driver)>>; the
   registry and the waiting list are unchanged. *)
C14_Dropoff ==
    [][DropoffCall =>
          LET rider == HeadEv.rider
              driver == HeadEv.driver
          IN  /\ status'[rider] = SATISFIED
              /\ location'[driver] = r_destination[rider]
              /\ d_destination'[driver] = NoLoc
              /\ is_idle'[driver]
              /\ ret' = <<Event("DriverRequest", HeadEv.timestamp, None, driver)>>
              /\ UNCHANGED <<driver_list, rq>>]_vars

(* C14 witness: a Dropoff was executed while another rider was on the
   waiting list; the driver, registered, stands idle at the rider's
   destination, away from the rider's origin, and its DriverRequest with
   the Dropoff's timestamp is queued. *)
C14_Witness ==
    /\ last.ev.kind = "Dropoff"
    /\ ret = <<DriverRequest(last.ev.timestamp, last.ev.driver)>>
    /\ \E i \in 1..Len(queue) : queue[i].ev = ret[1]
    /\ status[last.ev.rider] = SATISFIED
    /\ location[last.ev.driver] = r_destination[last.ev.rider]
    /\ origin[last.ev.rider] # r_destination[last.ev.rider]
    /\ is_idle[last.ev.driver]
    /\ last.ev.driver \in Registered
    /\ rq # <<>>

(* C15: a Cancellation(t, rider) executed while the rider is not SATISFIED
   sets the rider CANCELLED and sends exactly one notification, the rider's
   cancel; executed while the rider is SATISFIED it leaves the status
   SATISFIED and sends no notification. *)
C15_CancellationStatusAndNotice ==
    [][CancellationCall =>
          LET rider == HeadEv.rider
          IN  IF status[rider] # SATISFIED
              THEN /\ status'[rider] = CANCELLED
                   /\ notified' = Append(notified,
                                         [timestamp |-> HeadEv.timestamp,
                                          category |-> RIDER, action |-> CANCEL,
                                          id |-> rider, location |-> origin[rider]])
              ELSE /\ status'[rider] = SATISFIED
                   /\ notified' = notified]_vars

(* C15 witness: a Cancellation was executed for a rider that had been picked
   up (no notification: the latest one is not a cancel), after another
   rider's Cancellation had cancelled that rider and notified it. *)
C15_Witness ==
    /\ last.ev.kind = "Cancellation"
    /\ status[last.ev.rider] = SATISFIED
    /\ notified[Len(notified)].action # CANCEL
    /\ \E r \in Riders, n \in 1..Len(notified) :
           /\ r # last.ev.rider
           /\ status[r] = CANCELLED
           /\ notified[n].action = CANCEL
           /\ notified[n].category = RIDER
           /\ notified[n].id = r

(* C16: a Cancellation returns no events and changes nothing but the status
   of its own rider: every driver's location, destination and idle flag,
   the registry, the waiting list (the cancelled rider's entry included)
   and every other rider stay as they were, and the event queue only loses
   the Cancellation. *)
C16_CancellationFrame ==
    [][CancellationCall =>
          /\ ret' = <<>>
          /\ queue' = Tail(queue)
          /\ UNCHANGED <<location, speed, d_destination, is_idle, driver_list, rq,
                         origin, r_destination, patience>>
          /\ \A r \in Riders \ {HeadEv.rider} : status'[r] = status[r]]_vars

(* C16 witness: a Cancellation cancelled a rider that is still on the waiting
   list, from which another rider has been taken, while a registered driver
   is on its way (non-idle, with a destination). *)
C16_Witness ==
    /\ last.ev.kind = "Cancellation"
    /\ status[last.ev.rider] = CANCELLED
    /\ rq = <<last.ev.rider>>
    /\ Len(dequeued) = 1
    /\ ret = <<>>
    /\ \E d \in Registered : ~is_idle[d] /\ d_destination[d] # NoLoc

(* C17: in every run from an initial list of RiderRequest and DriverRequest
   events over distinct riders and drivers, the rider of the Pickup the loop
   is about to execute is never SATISFIED: the third branch of Pickup.do is
   never taken. *)
C17_NoPickupOfSatisfiedRider ==
    PickupCall => status[HeadEv.rider] # SATISFIED

(* C17 witness: a Pickup has just made one rider SATISFIED and the loop is
   about to execute the Pickup of the other rider, which is CANCELLED. *)
C17_Witness ==
    /\ last.ev.kind = "Pickup"
    /\ status[last.ev.rider] = SATISFIED
    /\ PickupCall
    /\ HeadEv.rider # last.ev.rider
    /\ status[HeadEv.rider] = CANCELLED

(* the notifications of the whole ride of rider by driver, registered at
   time dt at loc0, when the rider requests at time t: the driver's and the
   rider's requests, the Pickup at t + round(d1 / s), the Dropoff floor(d2 / s)
   later, and the driver's new request at the Dropoff's timestamp *)
RideLog(dt, loc0, t, rider, driver) ==
    LET d1 == manhattan_distance(loc0, origin[rider])
        d2 == manhattan_distance(origin[rider], r_destination[rider])
        tp == t + py_round(d1, speed[driver])
        td == tp + (d2 \div speed[driver])
    IN  << [timestamp |-> dt, category |-> DRIVER, action |-> REQUEST,
            id |-> driver, location |-> loc0],
           [timestamp |-> t, category |-> RIDER, action |-> REQUEST,
            id |-> rider, location |-> origin[rider]],
           [timestamp |-> tp, category |-> DRIVER, action |-> PICKUP,
            id |-> driver, location |-> origin[rider]],
           [timestamp |-> tp, category |-> RIDER, action |-> PICKUP,
            id |-> rider, location |-> origin[rider]],
           [timestamp |-> td, category |-> DRIVER, action |-> DROPOFF,
            id |-> driver, location |-> r_destination[rider]],
           [timestamp |-> td, category |-> DRIVER, action |-> REQUEST,
            id |-> driver, location |-> r_destination[rider]] >>

(* the RiderRequest has been executed with the one driver registered and
   idle, and the rider's patience exceeds the driver's approach time *)
RideAssigned ==
    /\ Len(notified) >= 2
    /\ notified[1].category = DRIVER
    /\ notified[2].category = RIDER
    /\ patience[notified[2].id] >
           py_round(manhattan_distance(notified[1].location, origin[notified[2].id]),
                    speed[notified[1].id])

(* C18: with one registered idle driver (speed s, at distance d1 from the
   rider's origin), ride distance d2 and patience p > round(d1 / s), a
   RiderRequest at time t is followed by exactly this executed sequence:
   Pickup at t + round(d1 / s), Dropoff at t + round(d1 / s) + floor(d2 / s),
   DriverRequest at the Dropoff's timestamp; the Cancellation is executed at
   t + p and leaves the rider SATISFIED, and the run ends with the rider
   SATISFIED. *)
C18_EndToEndRide ==
    RideAssigned =>
        LET rider == notified[2].id
            driver == notified[1].id
            t == notified[2].timestamp
            log == RideLog(notified[1].timestamp, notified[1].location, t, rider, driver)
        IN  /\ Len(notified) <= Len(log)
            /\ notified = SubSeq(log, 1, Len(notified))
            /\ last.ev.kind = "Cancellation" =>
                   /\ last.ev.timestamp = t + patience[rider]
                   /\ status[rider] = SATISFIED
            /\ (pc = "run" /\ queue = <<>>) =>
                   /\ notified = log
                   /\ status[rider] = SATISFIED
            /\ pc = "run"

(* C18 witness: the run of driver at (5,5) with speed 5 and rider (0,0) ->
   (5,5) with patience 10 requesting at 0 has ended: Pickup at 2, Dropoff at
   4, DriverRequest at 4, and the Cancellation, executed last at 10, left
   the rider SATISFIED. *)
C18_Witness ==
    /\ pc = "run"
    /\ queue = <<>>
    /\ speed["d1"] = 5
    /\ origin["r1"] = <<0, 0>>
    /\ r_destination["r1"] = <<5, 5>>
    /\ patience["r1"] = 10
    /\ notified = RideLog(0, <<5, 5>>, 0, "r1", "d1")
    /\ notified[3].timestamp = 2
    /\ notified[5].timestamp = 4
    /\ notified[6].timestamp = 4
    /\ last.ev = Cancellation(10, "r1")
    /\ status["r1"] = SATISFIED

(* no driver has registered and no DriverRequest is queued. A DriverRequest
   of the initial list is queued until it is executed and registered from
   then on, so this holds exactly in the runs whose initial list has only
   RiderRequest events *)
NoDriverRun ==
    /\ driver_list = <<>>
    /\ \A i \in 1..Len(queue) : queue[i].ev.kind # "DriverRequest"

\* the riders whose RiderRequest has been executed without a driver
Enqueued == {enqueued[i] : i \in 1..Len(enqueued)}

\* the queue positions of the Cancellations of a rider
CancellationsQueued(rider) ==
    {i \in 1..Len(queue) :
        queue[i].ev.kind = "Cancellation" /\ queue[i].ev.rider = rider}

(* C19: in a run in which no driver ever registers, only RiderRequest and
   Cancellation events exist: each executed RiderRequest returned exactly
   one Cancellation, at request time + patience, which is queued until it
   is executed and cancels the rider; no Pickup, Dropoff or DriverRequest is
   created or notified; and when the queue is empty every rider of the run
   is CANCELLED. *)
C19_NoDriverEverRegisters ==
    NoDriverRun =>
        /\ pc = "run"
        /\ \A i \in 1..Len(queue) : queue[i].ev.kind \in {"RiderRequest", "Cancellation"}
        \* the events ever created: the initial ones and one per executed request
        /\ nextSeq = Cardinality({i \in 1..Len(queue) : queue[i].ev.kind = "RiderRequest"})
                     + 2 * Len(enqueued)
        /\ \A i \in 1..Len(queue) :
               queue[i].ev.kind = "Cancellation" =>
                   /\ queue[i].ev.rider \in Enqueued
                   /\ queue[i].ev.timestamp = CancelTime(queue[i].ev.rider)
        /\ \A r \in Enqueued :
               IF CancellationsQueued(r) # {}
               THEN Cardinality(CancellationsQueued(r)) = 1 /\ status[r] = WAITING
               ELSE /\ status[r] = CANCELLED
                    /\ \E n \in 1..Len(notified) :
                           notified[n] = [timestamp |-> CancelTime(r), category |-> RIDER,
                                          action |-> CANCEL, id |-> r,
                                          location |-> origin[r]]
        /\ \A n \in 1..Len(notified) :
               notified[n].category = RIDER /\ notified[n].action \in {REQUEST, CANCEL}
        /\ last.ev.kind = "RiderRequest" =>
               ret = <<Event("Cancellation",
                             last.ev.timestamp + patience[last.ev.rider],
                             last.ev.rider, None)>>
        /\ last.ev.kind = "Cancellation" => ret = <<>>
        /\ queue = <<>> => \A r \in Enqueued : status[r] = CANCELLED

(* C19 witness: a run of two RiderRequests and no driver has ended: the
   queue is empty, both riders went through the waiting list and are
   CANCELLED, one of them after a positive patience. *)
C19_Witness ==
    /\ NoDriverRun
    /\ pc = "run"
    /\ queue = <<>>
    /\ Enqueued = Riders
    /\ \A r \in Riders : status[r] = CANCELLED
    /\ last.ev.kind = "Cancellation"
    /\ patience[last.ev.rider] > 0
    /\ last.ev.timestamp = CancelTime(last.ev.rider)
    /\ nextSeq = 2 * Len(enqueued)

(* C20: remove() on an empty PriorityQueue or an empty RiderQueue raises: it
   returns no item (no placeholder either: the caller's variable keeps what
   it held), leaves the container empty and ends the run, after which no
   further call is made. *)
C20_RemoveOnEmptyRaises ==
    [][/\ (last'.ev.kind = "PriorityQueue.remove" /\ queue = <<>>) =>
              /\ pc' = "aborted"
              /\ ret' = ret
              /\ queue' = <<>>
       /\ (last'.ev.kind = "RiderQueue.remove" /\ rq = <<>>) =>
              /\ pc' = "aborted"
              /\ returned' = returned
              /\ rq' = <<>>
       /\ pc # "aborted"]_vars

(* C20 witness: remove() was called on a PriorityQueue that earlier removes
   had emptied (the item of the latest successful one is still held), while
   the RiderQueue held a rider; the call raised and the queue is empty. *)
C20_Witness ==
    /\ pc = "aborted"
    /\ last.ev.kind = "PriorityQueue.remove"
    /\ queue = <<>>
    /\ Len(ret) = 1
    /\ ret[1].seq >= 0
    /\ rq # <<>>

(* The same for the RiderQueue: remove() was called on a RiderQueue that
   earlier removes had emptied, while the PriorityQueue held an item; the
   call raised and the RiderQueue is empty. *)
C20_WitnessRiderQueue ==
    /\ pc = "aborted"
    /\ last.ev.kind = "RiderQueue.remove"
    /\ rq = <<>>
    /\ returned \in Riders
    /\ queue # <<>>

(* C21: Dispatcher.cancel_ride(rider) sets the rider CANCELLED whatever its
   status was, and changes nothing else: not the other riders, the waiting
   list, the registry or any driver. *)
C21_CancelRideUnconditional ==
    [][last'.ev.kind = "cancel_ride" =>
          /\ status'[last'.ev.rider] = CANCELLED
          /\ \A r \in Riders \ {last'.ev.rider} : status'[r] = status[r]
          /\ UNCHANGED <<rq, driver_list, location, speed, d_destination, is_idle,
                         origin, r_destination, patience>>]_vars

(* C21 witness: cancel_ride has cancelled a rider that is on the waiting
   list while the other rider, taken off the list, is SATISFIED by a
   start_ride; one driver is registered, and a driver has a destination. *)
C21_Witness ==
    /\ last.ev.kind = "cancel_ride"
    /\ status[last.ev.rider] = CANCELLED
    /\ \E i \in 1..Len(rq) : rq[i] = last.ev.rider
    /\ \E r \in Riders : status[r] = SATISFIED
    /\ \E d \in Drivers : d_destination[d] # NoLoc
    /\ Len(driver_list) = 1
    /\ Len(dequeued) = 1

\* n is the integer nearest to d / s, an exact half going to the even neighbour
NearestHalfEven(n, d, s) ==
    /\ 2 * Abs(n * s - d) <= s
    /\ 2 * Abs(n * s - d) = s => n % 2 = 0

\* n is floor(d / s)
IsFloor(n, d, s) == n * s <= d /\ d < (n + 1) * s

(* C22: for every distance d >= 0 and speed s > 0 of the grid, start_drive
   returns the integer nearest to d / s with exact halves (2 * (d mod s) = s)
   to the even neighbour, get_travel_time and start_ride return floor(d / s),
   and the approach time differs from the floor exactly when
   2 * (d mod s) > s, or 2 * (d mod s) = s and floor(d / s) is odd. *)
C22_RoundVersusFloor ==
    LET s == speed["d1"]
        d == manhattan_distance(location["d1"], origin["r1"])
        dr == manhattan_distance(location["d1"], r_destination["r1"])
        approach == start_drive(location["d1"], s, origin["r1"])
        eta == get_travel_time(location["d1"], s, origin["r1"])
    IN  /\ last.ev.kind = "start_drive" => NearestHalfEven(ret[1], d, s)
        /\ last.ev.kind = "get_travel_time" => IsFloor(ret[1], d, s)
        /\ last.ev.kind = "start_ride" => IsFloor(ret[1], dr, s)
        /\ NearestHalfEven(approach, d, s)
        /\ IsFloor(eta, d, s)
        /\ approach # eta <=>
               \/ 2 * (d % s) > s
               \/ 2 * (d % s) = s /\ (d \div s) % 2 = 1

(* C22 witness: start_drive, the second call on the driver, has returned 2
   for distance 3 at speed 2 (the half 1.5 goes to the even 2) where
   get_travel_time gives the floor 1; the driver is non-idle. *)
C22_Witness ==
    /\ pc = "time"
    /\ last.ev.kind = "start_drive"
    /\ speed["d1"] = 2
    /\ manhattan_distance(location["d1"], origin["r1"]) = 3
    /\ ret = <<2>>
    /\ get_travel_time(location["d1"], speed["d1"], origin["r1"]) = 1
    /\ nextSeq = 2
    /\ ~is_idle["d1"]

\* the registry has no driver twice
DuplicateFree(list) ==
    \A i, j \in 1..Len(list) : list[i] = list[j] => i = j

(* C23: the registry is append-only and duplicate-free: a step leaves every
   registered driver at its position, and a DriverRequest of a registered
   driver (one emitted by a Dropoff or a cancelled Pickup, after the driver
   has moved) does not add it again. *)
C23_RegistryAppendOnly ==
    [][/\ Len(driver_list') >= Len(driver_list)
       /\ SubSeq(driver_list', 1, Len(driver_list)) = driver_list
       /\ DuplicateFree(driver_list)
       /\ DuplicateFree(driver_list')
       /\ (DriverRequestCall /\ HeadEv.driver \in Registered) =>
              driver_list' = driver_list]_vars

(* C23 witness: the DriverRequest emitted by a Dropoff was executed for a
   driver that stands elsewhere than where it registered; the registry
   holds both drivers, this one first and once. *)
C23_Witness ==
    /\ last.ev.kind = "DriverRequest"
    /\ Len(driver_list) = 2
    /\ driver_list[1] = last.ev.driver
    /\ driver_list[2] # last.ev.driver
    /\ \E m, n \in 1..Len(notified) :
           /\ m < n
           /\ notified[m].category = DRIVER
           /\ notified[m].action = REQUEST
           /\ notified[m].id = last.ev.driver
           /\ notified[m].location # location[last.ev.driver]
           /\ notified[n].category = DRIVER
           /\ notified[n].action = DROPOFF
           /\ notified[n].id = last.ev.driver
           /\ notified[n].timestamp = last.ev.timestamp

\* the queue positions of the pending Pickup and Dropoff events of a driver
Commitments(driver) ==
    {i \in 1..Len(queue) :
        queue[i].ev.kind \in {"Pickup", "Dropoff"} /\ queue[i].ev.driver = driver}

(* C24: no double-booking: in every reachable state each driver has at most
   one pending Pickup or Dropoff; and no RiderRequest is executed while a
   registered idle driver still has its own DriverRequest pending, so a
   driver freed by a Dropoff or a cancelled Pickup is not given a rider by
   request_driver and then another by that DriverRequest. *)
C24_NoDoubleBooking ==
    /\ \A d \in Drivers : Cardinality(Commitments(d)) <= 1
    /\ RiderRequestCall =>
           \A i \in 1..Len(queue) :
               ~(/\ queue[i].ev.kind = "DriverRequest"
                 /\ queue[i].ev.driver \in Registered
                 /\ is_idle[queue[i].ev.driver])

(* C24 witness: a RiderRequest is about to be executed after a Dropoff freed
   a driver and that driver's own DriverRequest was executed: the driver is
   idle with nothing pending, and only request_driver can now take it. *)
C24_Witness ==
    /\ RiderRequestCall
    /\ \E d \in Registered :
           /\ is_idle[d]
           /\ Commitments(d) = {}
           /\ \A i \in 1..Len(queue) : queue[i].ev.kind # "DriverRequest"
           /\ \E n \in 1..Len(notified) :
                  /\ notified[n].action = DROPOFF
                  /\ notified[n].id = d

(* C25: in every reachable state a registered driver is non-idle exactly
   when the queue holds a pending Pickup or Dropoff for it: no driver is
   non-idle with nothing scheduled, and no idle driver has a pending Pickup
   or Dropoff. *)
C25_IdleFlagMatchesCommitments ==
    \A d \in Registered : ~is_idle[d] <=> Commitments(d) # {}

(* C25 witness: a Dropoff has just left one registered driver idle with only
   its DriverRequest pending, while the other registered driver is
   non-idle with a pending Pickup. *)
C25_Witness ==
    /\ last.ev.kind = "Dropoff"
    /\ is_idle[last.ev.driver]
    /\ Commitments(last.ev.driver) = {}
    /\ \E i \in 1..Len(queue) : queue[i].ev = DriverRequest(last.ev.timestamp, last.ev.driver)
    /\ \E d \in Registered :
           /\ ~is_idle[d]
           /\ \E i \in Commitments(d) : queue[i].ev.kind = "Pickup"

\* the positions in the monitor's log of the rider notifications of one action
RiderNotes(rider, action) ==
    {n \in 1..Len(notified) :
        /\ notified[n].category = RIDER
        /\ notified[n].action = action
        /\ notified[n].id = rider}

(* C26: over any run no rider receives both a rider-CANCEL and a
   rider-PICKUP notification, and each of them at most once: a rider-PICKUP
   notification follows the driver's PICKUP notification of a Pickup that
   found the rider WAITING and made it SATISFIED for good, and a
   rider-CANCEL notification comes from a Cancellation that found the rider
   not SATISFIED and left it CANCELLED for good. *)
C26_CancelAndPickupNoticesExclusive ==
    \A n \in 1..Len(notified) :
        LET note == notified[n]
        IN  (note.category = RIDER /\ note.action \in {CANCEL, PICKUP}) =>
                /\ \A m \in 1..(n - 1) :
                       ~(/\ notified[m].category = RIDER
                         /\ notified[m].action \in {CANCEL, PICKUP}
                         /\ notified[m].id = note.id)
                /\ note.action = CANCEL => status[note.id] = CANCELLED
                /\ note.action = PICKUP =>
                       /\ status[note.id] = SATISFIED
                       /\ n > 1
                       /\ notified[n - 1].category = DRIVER
                       /\ notified[n - 1].action = PICKUP
                       /\ notified[n - 1].timestamp = note.timestamp
                       /\ notified[n - 1].location = note.location

(* C26 witness: the Cancellation of a rider that was picked up has just run
   and found it SATISFIED, after a Pickup had reached the other rider, which
   had cancelled: each rider holds exactly one of the two notifications. *)
C26_Witness ==
    /\ last.ev.kind = "Cancellation"
    /\ RiderNotes(last.ev.rider, PICKUP) # {}
    /\ RiderNotes(last.ev.rider, CANCEL) = {}
    /\ \E r \in Riders :
           /\ RiderNotes(r, CANCEL) # {}
           /\ RiderNotes(r, PICKUP) = {}
           /\ \E n \in 1..Len(notified) :
                  /\ notified[n].category = DRIVER
                  /\ notified[n].action = PICKUP
                  /\ notified[n].location = origin[r]
                  /\ \A m \in RiderNotes(r, CANCEL) : m < n
                  /\ (n = Len(notified) \/ notified[n + 1].category # RIDER)

(* C27: a rider on the waiting list whose Cancellation has executed stays
   on the list and is handed out by request_rider in FIFO position (the
   list is what was enqueued minus the prefix that was dequeued). The
   DriverRequest that has just dequeued a CANCELLED rider made the driver
   non-idle toward that rider's origin and returned the Pickup there,
   round(d / s) later; the Pickup that has just found its rider CANCELLED
   moved the driver to that origin, left it idle with no Pickup or Dropoff
   pending, and returned a DriverRequest with its own timestamp. *)
C27_CancelledRiderStaysWaitlisted ==
    [](/\ enqueued = dequeued \o rq
       /\ \A r \in Riders :
              (/\ status[r] = CANCELLED
               /\ \E i \in 1..Len(enqueued) : enqueued[i] = r
               /\ \A i \in 1..Len(dequeued) : dequeued[i] # r)
                  => \E i \in 1..Len(rq) : rq[i] = r
       /\ (/\ last.ev.kind = "DriverRequest"
           /\ ret # <<>>
           /\ status[ret[1].rider] = CANCELLED)
              => LET driver == last.ev.driver
                     rider == dequeued[Len(dequeued)]
                 IN  /\ ret = <<Pickup(last.ev.timestamp
                                         + start_drive(location[driver], speed[driver],
                                                       origin[rider]),
                                       rider, driver)>>
                     /\ ~is_idle[driver]
                     /\ d_destination[driver] = origin[rider]
                     /\ \A i \in 1..Len(rq) : rq[i] # rider
                     /\ \E i \in 1..Len(queue) : queue[i].ev = ret[1]
       /\ (last.ev.kind = "Pickup" /\ status[last.ev.rider] = CANCELLED)
              => LET driver == last.ev.driver
                 IN  /\ location[driver] = origin[last.ev.rider]
                     /\ is_idle[driver]
                     /\ ret = <<DriverRequest(last.ev.timestamp, driver)>>
                     /\ Commitments(driver) = {}
                     /\ \E i \in 1..Len(queue) : queue[i].ev = ret[1])

(* C27 witness: two riders were waitlisted and the first one cancelled while
   on the list; a DriverRequest dequeued it all the same, its Pickup has
   just run, found it CANCELLED and returned the driver's DriverRequest;
   the second rider is still on the list. *)
C27_Witness ==
    /\ last.ev.kind = "Pickup"
    /\ status[last.ev.rider] = CANCELLED
    /\ Len(enqueued) = 2
    /\ dequeued = <<last.ev.rider>>
    /\ Len(rq) = 1
    /\ \E n \in RiderNotes(last.ev.rider, CANCEL) :
           \E m \in (n + 1)..Len(notified) :
               /\ notified[m].category = DRIVER
               /\ notified[m].action = REQUEST
               /\ notified[m].id = last.ev.driver
    /\ ret = <<DriverRequest(last.ev.timestamp, last.ev.driver)>>
    /\ location[last.ev.driver] = origin[last.ev.rider]

(* C28: when a RiderRequest is given a driver at once and the approach time
   round(d / s) equals the rider's patience, the Pickup and the Cancellation
   it returns carry the same timestamp and the Pickup is queued ahead; for
   as long as that Pickup is pending the rider is WAITING and its
   Cancellation is queued behind it; the Pickup, once executed, has made the
   rider SATISFIED and returned the Dropoff while the Cancellation is still
   queued; and the Cancellation, once executed, has left the rider SATISFIED
   without a notification. *)
C28_PickupBeatsCancellationOnTie ==
    [](/\ (last.ev.kind = "RiderRequest" /\ Len(ret) = 2)
              => LET rider == last.ev.rider
                     driver == ret[1].driver
                     eta == start_drive(location[driver], speed[driver], origin[rider])
                 IN  /\ ret[1].kind = "Pickup"
                     /\ ret = <<Pickup(last.ev.timestamp + eta, rider, driver),
                                Cancellation(last.ev.timestamp + patience[rider], rider)>>
                     /\ eta = patience[rider] =>
                            /\ ret[1].timestamp = ret[2].timestamp
                            /\ \E i, j \in 1..Len(queue) :
                                   /\ i < j
                                   /\ queue[i].ev = ret[1]
                                   /\ queue[j].ev = ret[2]
       /\ \A i \in 1..Len(queue) :
              LET e == queue[i].ev
              IN  (/\ e.kind = "Pickup"
                   /\ \A k \in 1..Len(enqueued) : enqueued[k] # e.rider
                   /\ e.timestamp = CancelTime(e.rider))
                      => /\ status[e.rider] = WAITING
                         /\ \E j \in (i + 1)..Len(queue) :
                                queue[j].ev = Cancellation(e.timestamp, e.rider)
       /\ (/\ last.ev.kind = "Pickup"
           /\ last.ev.rider \notin Enqueued
           /\ last.ev.timestamp = CancelTime(last.ev.rider))
              => LET rider == last.ev.rider
                     driver == last.ev.driver
                 IN  /\ status[rider] = SATISFIED
                     /\ ret = <<Dropoff(last.ev.timestamp
                                          + start_ride(origin[rider], speed[driver], rider),
                                        driver, rider)>>
                     /\ \E i \in 1..Len(queue) : queue[i].ev = ret[1]
                     /\ \E j \in 1..Len(queue) :
                            queue[j].ev = Cancellation(last.ev.timestamp, rider)
       /\ (/\ last.ev.kind = "Cancellation"
           /\ last.ev.rider \notin Enqueued
           /\ \E n \in RiderNotes(last.ev.rider, PICKUP) :
                  notified[n].timestamp = last.ev.timestamp)
              => /\ status[last.ev.rider] = SATISFIED
                 /\ RiderNotes(last.ev.rider, CANCEL) = {}
                 /\ ret = <<>>)

(* C28 witness: a rider with patience 2 was given at once a driver of speed 2
   at distance 3, so round(1.5) = 2 put the Pickup and the Cancellation at
   the same time; the Pickup ran first, and the Cancellation has just run
   and left the rider SATISFIED, unnotified. *)
C28_Witness ==
    /\ last.ev.kind = "Cancellation"
    /\ last.ev.rider \notin Enqueued
    /\ patience[last.ev.rider] = 2
    /\ status[last.ev.rider] = SATISFIED
    /\ RiderNotes(last.ev.rider, CANCEL) = {}
    /\ \E n \in RiderNotes(last.ev.rider, PICKUP) :
           /\ notified[n].timestamp = last.ev.timestamp
           /\ notified[n].timestamp = CancelTime(last.ev.rider)
    /\ \E d \in Registered : speed[d] = 2

(* the most events a run can create: a rider has its RiderRequest, its
   Cancellation, one Pickup and one Dropoff, and frees a driver at most once
   (either its Dropoff or its cancelled Pickup returns a DriverRequest); a
   driver has its initial DriverRequest *)
EventBound == 5 * Cardinality(Riders) + Cardinality(Drivers)

\* the events executed so far: those created minus those still queued
Executed == nextSeq - Len(queue)

(* C29: termination: a run executes only finitely many events (never more
   than EventBound, so the same-timestamp DriverRequest follow-ups cannot
   feed each other forever), and the loop stops only by having emptied the
   event queue. *)
C29_RunReachesEmptyQueue ==
    /\ nextSeq <= EventBound
    /\ Executed <= EventBound
    /\ ~Running => (pc = "run" /\ PriorityQueue_is_empty(queue))

\* the finiteness half of C29 on its own
C29_FinitelyManyEvents ==
    nextSeq <= EventBound /\ Executed <= EventBound

(* C30: liveness: once the loop has stopped, every rider whose RiderRequest
   was executed has a terminal status, CANCELLED or SATISFIED, whether or
   not a driver was available when it requested: no rider is left WAITING. *)
C30_NoRiderLeftWaiting ==
    ~Running =>
        \A r \in Riders :
            RiderNotes(r, REQUEST) # {} => status[r] \in {CANCELLED, SATISFIED}

\* C30 restricted to the runs that end with an empty queue and no exception
C30_NoRiderLeftWaitingUnlessAborted ==
    (pc = "run" /\ PriorityQueue_is_empty(queue)) =>
        \A r \in Riders :
            RiderNotes(r, REQUEST) # {} => status[r] \in {CANCELLED, SATISFIED}

====
